---- MODULE Spec2Model ----
(***************************************************************************)
(* Model of parse_payroll_data (src/app.py): the line scanner that tracks  *)
(* the current employee, emits a record per accepted data line, and        *)
(* appends one total row per employee.  Text is a sequence of one-         *)
(* character strings; every regular expression and string method of the    *)
(* source is an operator over such sequences.                              *)
(***************************************************************************)
EXTENDS Integers, Sequences, FiniteSets, TLC

VARIABLES raw_text, pc, lines, i, current_employee, all_data, origin, result, history

vars == <<raw_text, pc, lines, i, current_employee, all_data, origin, result, history>>

----------------------------------------------------------------------------
(* Character classes used by the regular expressions and by str.strip(). *)

Digit == {"0", "1", "2", "3", "4", "5", "6", "7", "8", "9"}

Upper == {"A", "B", "C", "D", "E", "F", "G", "H", "I", "J", "K", "L", "M",
          "N", "O", "P", "Q", "R", "S", "T", "U", "V", "W", "X", "Y", "Z"}

Lower == {"a", "b", "c", "d", "e", "f", "g", "h", "i", "j", "k", "l", "m",
          "n", "o", "p", "q", "r", "s", "t", "u", "v", "w", "x", "y", "z"}

WS == {" ", "\t", "\n", "\r", "\f"}

DigitVal(c) == CASE c = "0" -> 0 [] c = "1" -> 1 [] c = "2" -> 2 [] c = "3" -> 3
                 [] c = "4" -> 4 [] c = "5" -> 5 [] c = "6" -> 6 [] c = "7" -> 7
                 [] c = "8" -> 8 [] c = "9" -> 9

DigitChar(d) == CASE d = 0 -> "0" [] d = 1 -> "1" [] d = 2 -> "2" [] d = 3 -> "3"
                  [] d = 4 -> "4" [] d = 5 -> "5" [] d = 6 -> "6" [] d = 7 -> "7"
                  [] d = 8 -> "8" [] d = 9 -> "9"

----------------------------------------------------------------------------
(* String methods: strip, replace(c, ''), split, join. *)

RECURSIVE LStrip(_)
LStrip(s) == IF s # <<>> /\ Head(s) \in WS THEN LStrip(Tail(s)) ELSE s

RECURSIVE RStrip(_)
RStrip(s) == IF s # <<>> /\ s[Len(s)] \in WS THEN RStrip(SubSeq(s, 1, Len(s) - 1)) ELSE s

Strip(s) == RStrip(LStrip(s))

Remove(s, c) == SelectSeq(s, LAMBDA x : x # c)

(* Index of the first c in s, or 0. *)
RECURSIVE Find(_, _, _)
Find(s, c, k) == IF k > Len(s) THEN 0 ELSE IF s[k] = c THEN k ELSE Find(s, c, k + 1)

(* str.split(c): always at least one piece. *)
RECURSIVE SplitOn(_, _)
SplitOn(s, c) == LET k == Find(s, c, 1)
                 IN IF k = 0 THEN <<s>>
                    ELSE <<SubSeq(s, 1, k - 1)>> \o SplitOn(SubSeq(s, k + 1, Len(s)), c)

RECURSIVE Join(_, _)
Join(ls, c) == IF ls = <<>> THEN <<>>
               ELSE IF Len(ls) = 1 THEN ls[1]
               ELSE ls[1] \o <<c>> \o Join(Tail(ls), c)

(* Length of the longest prefix of s, from position k, whose characters are in S. *)
RECURSIVE Run(_, _, _)
Run(s, k, S) == IF k <= Len(s) /\ s[k] \in S THEN 1 + Run(s, k + 1, S) ELSE 0

At(s, k) == IF k >= 1 /\ k <= Len(s) THEN s[k] ELSE "<eos>"

----------------------------------------------------------------------------
(* Regular expressions. *)

\* name_pattern.match(line), the pattern being
\*     ^([A-Z][a-z]+(?:-\s?[A-Z][a-z]+)?, [A-Z].*)$
\* Every choice point is forced by the next character, so the match is
\* deterministic.  The dot does not match a line feed.
NameMatch(line) ==
    LET n1 == Run(line, 2, Lower)
        p1 == 2 + n1
        q  == IF At(line, p1 + 1) \in WS THEN p1 + 2 ELSE p1 + 1
        n2 == Run(line, q + 1, Lower)
        hyphen == At(line, p1) = "-" /\ At(line, q) \in Upper /\ n2 >= 1
        p2 == IF hyphen THEN q + 1 + n2 ELSE p1
    IN /\ At(line, 1) \in Upper
       /\ n1 >= 1
       /\ At(line, p2) = ","
       /\ At(line, p2 + 1) = " "
       /\ At(line, p2 + 2) \in Upper
       /\ Find(line, "\n", 1) = 0

\* \d{4}-\d{2}-\d{2} at position k of s.
IsoAt(s, k) ==
    /\ \A j \in {0, 1, 2, 3, 5, 6, 8, 9} : At(s, k + j) \in Digit
    /\ At(s, k + 4) = "-"
    /\ At(s, k + 7) = "-"

\* date_pattern.match(line): a double quote, \d{4}-\d{2}-\d{2}, a double quote.
DateMatch(line) == At(line, 1) = "\"" /\ IsoAt(line, 2) /\ At(line, 12) = "\""

\* re.match of \d{4}-\d{2}-\d{2} on the date field: a prefix match.
DatePrefix(s) == IsoAt(s, 1)

\* Length of the match of R\s*[\d,]+\.\d{2} at position k of s, 0 if none.
CurrencyLenAt(s, k) ==
    LET w == Run(s, k + 1, WS)
        d == Run(s, k + 1 + w, Digit \cup {","})
        e == k + 1 + w + d
    IN IF /\ At(s, k) = "R"
          /\ d >= 1
          /\ At(s, e) = "."
          /\ At(s, e + 1) \in Digit
          /\ At(s, e + 2) \in Digit
       THEN 1 + w + d + 3
       ELSE 0

\* re.match of R\s*[\d,]+\.\d{2} on the gross field: a prefix match.
CurrencyPrefix(s) == CurrencyLenAt(s, 1) > 0

----------------------------------------------------------------------------
(* The data line: cleaning, splitting into fields, selecting the record. *)

\* cleaned_line and fields: quotes and line feeds removed, the line split on
\* every comma, each piece stripped, empty pieces dropped.
RECURSIVE StripNonEmpty(_)
StripNonEmpty(fs) == IF fs = <<>> THEN <<>>
                     ELSE IF Strip(Head(fs)) = <<>> THEN StripNonEmpty(Tail(fs))
                     ELSE <<Strip(Head(fs))>> \o StripNonEmpty(Tail(fs))

\* A split that keeps a comma inside a quoted field.
RECURSIVE SplitOutsideQuotes(_, _, _)
SplitOutsideQuotes(s, cur, inq) ==
    IF s = <<>> THEN <<cur>>
    ELSE IF Head(s) = "\"" THEN SplitOutsideQuotes(Tail(s), cur, ~inq)
    ELSE IF Head(s) = "," /\ ~inq THEN <<cur>> \o SplitOutsideQuotes(Tail(s), <<>>, inq)
    ELSE SplitOutsideQuotes(Tail(s), Append(cur, Head(s)), inq)

FieldsQuoteAware(line) == StripNonEmpty(SplitOutsideQuotes(Strip(Remove(line, "\n")), <<>>, FALSE))

Fields(line) == StripNonEmpty(SplitOn(Strip(Remove(Remove(line, "\""), "\n")), ","))

MinFields == 10

GrossIndex == 9

\* The conditions under which the loop body appends a record for the line.
Accepts(line) ==
    /\ DateMatch(line)
    /\ LET fields == Fields(line)
       IN /\ Len(fields) >= MinFields
          /\ CurrencyPrefix(fields[GrossIndex])
          /\ DatePrefix(fields[1])

RecordOf(employee, line) ==
    LET fields == Fields(line)
    IN [EmployeeName |-> employee,
        Date |-> fields[1],
        GrossRemuneration |-> fields[GrossIndex]]

----------------------------------------------------------------------------
(* Currency: clean_currency and the 'R {:,.2f}' format.  Amounts are cents. *)

RECURSIVE IntVal(_, _, _)
IntVal(s, k, n) == IF n = 0 THEN 0 ELSE IntVal(s, k, n - 1) * 10 + DigitVal(s[k + n - 1])

\* float(s) for the decimal literals [sign] digits [. digits] and [sign] . digits,
\* surrounding whitespace ignored.  Exponents, underscores, inf and nan use
\* characters that no enumerated input contains.
FloatShape(s) ==
    LET t   == Strip(s)
        sg  == IF At(t, 1) \in {"+", "-"} THEN 1 ELSE 0
        a   == Run(t, 1 + sg, Digit)
        dot == At(t, 1 + sg + a) = "."
        b   == IF dot THEN Run(t, 2 + sg + a, Digit) ELSE 0
    IN [ok |-> a + b >= 1 /\ sg + a + (IF dot THEN 1 + b ELSE 0) = Len(t),
        t |-> t, sg |-> sg, a |-> a, b |-> b]

FloatOk(s) == FloatShape(s).ok

\* The value in cents; fraction digits after the second are below one cent and
\* no enumerated input has any.
FloatCents(s) ==
    LET f == FloatShape(s)
        whole == IntVal(f.t, 1 + f.sg, f.a)
        frac  == IF f.b = 0 THEN 0
                 ELSE IF f.b = 1 THEN 10 * IntVal(f.t, 2 + f.sg + f.a, 1)
                 ELSE IntVal(f.t, 2 + f.sg + f.a, 2)
        mag   == 100 * whole + frac
    IN IF At(f.t, 1) = "-" THEN 0 - mag ELSE mag

\* A conversion that keeps the leading number of a malformed value.
clean_currency_prefix(value) ==
    LET s == Strip(Remove(Remove(value, "R"), ","))
        a == Run(s, 1, Digit)
        b == IF At(s, a + 1) = "." THEN Run(s, a + 2, Digit) ELSE 0
        n == IF b = 0 THEN a ELSE a + 1 + b
    IN IF FloatOk(s) THEN FloatCents(s)
       ELSE IF a + b >= 1 THEN FloatCents(SubSeq(s, 1, n)) ELSE 0

clean_currency(value) ==
    LET s == Strip(Remove(Remove(value, "R"), ","))
    IN IF FloatOk(s) THEN FloatCents(s) ELSE 0

RECURSIVE Digits(_)
Digits(n) == IF n < 10 THEN <<DigitChar(n)>> ELSE Digits(n \div 10) \o <<DigitChar(n % 10)>>

Pad3(n) == <<DigitChar(n \div 100), DigitChar((n \div 10) % 10), DigitChar(n % 10)>>

RECURSIVE Grouped(_)
Grouped(n) == IF n < 1000 THEN Digits(n) ELSE Grouped(n \div 1000) \o <<",">> \o Pad3(n % 1000)

\* 'R {:,.2f}'.format(value) for a non-negative value given in cents.
FormatCurrency(cents) ==
    <<"R", " ">> \o Grouped(cents \div 100) \o <<".">>
        \o <<DigitChar((cents \div 10) % 10), DigitChar(cents % 10)>>

----------------------------------------------------------------------------
(* Aggregation: totals per employee and the final row order. *)

RECURSIVE SumValues(_)
SumValues(df) == IF df = <<>> THEN 0
                 ELSE clean_currency(Head(df).GrossRemuneration) + SumValues(Tail(df))

EmployeeRecords(df, name) == SelectSeq(df, LAMBDA r : r.EmployeeName = name)

\* A total taken over the whole frame.
TotalOfAll(df, name) == FormatCurrency(SumValues(df))

\* df.groupby('Employee Name')['Gross Remuneration Value'].sum(), formatted.
TotalOf(df, name) == FormatCurrency(SumValues(EmployeeRecords(df, name)))

\* Series.unique(): the distinct values in order of first appearance.
RECURSIVE Unique(_)
Unique(names) ==
    IF names = <<>> THEN <<>>
    ELSE LET rest == Unique(SubSeq(names, 1, Len(names) - 1))
             last == names[Len(names)]
         IN IF \E k \in DOMAIN rest : rest[k] = last THEN rest ELSE Append(rest, last)

\* Names with only adjacent repetitions merged.
RECURSIVE Runs(_)
Runs(names) ==
    IF Len(names) <= 1 THEN names
    ELSE LET rest == Runs(SubSeq(names, 1, Len(names) - 1))
             last == names[Len(names)]
         IN IF rest[Len(rest)] = last THEN rest ELSE Append(rest, last)

GroupNamesByRun(df) == Runs([k \in DOMAIN df |-> df[k].EmployeeName])

GroupNames(df) == Unique([k \in DOMAIN df |-> df[k].EmployeeName])

TotalPrefix == <<"T", "O", "T", "A", "L", " ", "f", "o", "r", " ">>

TotalRow(df, name) ==
    [EmployeeName |-> TotalPrefix \o name,
     Date |-> <<>>,
     GrossRemuneration |-> TotalOf(df, name)]

RECURSIVE FinalRecords(_, _)
FinalRecords(df, names) ==
    IF names = <<>> THEN <<>>
    ELSE EmployeeRecords(df, Head(names)) \o <<TotalRow(df, Head(names))>>
             \o FinalRecords(df, Tail(names))

----------------------------------------------------------------------------
(* Inputs: texts of at most MaxLines lines over LineSet, texts of at most *)
(* MaxGroupLines lines over GroupLineSet, and the null input.             *)

\* current_employee = "Unknown Employee"
Unknown ==
    <<"U", "n", "k", "n", "o", "w", "n", " ", "E", "m", "p", "l", "o", "y",
      "e", "e">>

\* a name line
NameK ==
    <<"K", "a", "p", "a", "m", "b", "a", ",", " ", "K", "a", "y", "o", "k",
      "a", " ", "B", "o", "v", "i", "c", "k">>

\* a hyphenated name line with surrounding whitespace
NameH ==
    <<" ", "A", "b", "-", "C", "d", ",", " ", "E", "\r">>

\* a short name line
NameA ==
    <<"A", "b", ",", " ", "C">>

\* a quoted row of ten non-empty fields, gross in field 9
RowOk ==
    <<"\"", "2", "0", "2", "4", "-", "0", "1", "-", "3", "1", "\"", ",", "1",
      ",", " ", ",", "2", ",", "3", ",", "4", ",", "5", ",", "6", ",", "7",
      ",", "\"", "R", " ", "2", "0", "0", ".", "0", "0", "\"", ",", "\"",
      "R", " ", "8", "0", "0", ".", "0", "0", "\"">>

\* a row of ten fields with a single currency value, in field 9
RowOne ==
    <<"\"", "2", "0", "2", "4", "-", "0", "3", "-", "3", "1", "\"", ",", "1",
      ",", "2", ",", "3", ",", "4", ",", "5", ",", "6", ",", "7", ",", "R",
      " ", "1", "9", "9", "9", ".", "5", "0", ",", "9">>

\* a row whose date and gross fields carry trailing characters
RowJunk ==
    <<"\"", "2", "0", "2", "4", "-", "0", "2", "-", "2", "9", "\"", "x", ",",
      "1", ",", "2", ",", "3", ",", "4", ",", "5", ",", "6", ",", "7", ",",
      "R", " ", "5", "0", ".", "0", "0", "x", ",", "9">>

\* an unquoted row: date, then three currency values
RowPlain ==
    <<"2", "0", "2", "4", "-", "0", "1", "-", "3", "1", " ", "R", " ", "1",
      ",", "0", "0", "0", ".", "0", "0", " ", "R", " ", "2", "0", "0", ".",
      "0", "0", " ", "R", " ", "8", "0", "0", ".", "0", "0">>

\* a quoted row whose gross has a thousands separator
RowThousands ==
    <<"\"", "2", "0", "2", "4", "-", "0", "1", "-", "3", "1", "\"", ",", "1",
      ",", "2", ",", "3", ",", "4", ",", "5", ",", "6", ",", "7", ",", "\"",
      "R", " ", "1", ",", "0", "0", "0", ".", "0", "0", "\"", ",", "\"", "R",
      " ", "8", "0", "0", ".", "0", "0", "\"">>

\* a quoted row of three fields
RowShort ==
    <<"\"", "2", "0", "2", "4", "-", "0", "1", "-", "3", "1", "\"", ",", "R",
      " ", "2", "0", "0", ".", "0", "0", ",", "R", " ", "8", "0", "0", ".",
      "0", "0">>

\* an empty line
Blank ==
    <<>>

None == <<"None">>

MaxLines == 3

MaxGroupLines == 6

MaxCalls == 2

LineSet == {NameK, NameH, RowOk, RowOne, RowJunk, RowPlain, RowThousands, RowShort, Blank}

GroupLineSet == {NameA, NameK, RowOk}

Texts(S, n) == {Join(ls, "\n") : ls \in UNION {[1..k -> S] : k \in 0..n}}

InputTexts == Texts(LineSet, MaxLines) \cup Texts(GroupLineSet, MaxGroupLines) \cup {None}

\* Texts a later call may be given besides the text of the call before it.
FollowUpTexts == {RowOk}

----------------------------------------------------------------------------
(* The state machine: one call of parse_payroll_data after another. *)

Init ==
    /\ raw_text \in InputTexts
    /\ pc = "start"
    /\ lines = <<>>
    /\ i = 1
    /\ current_employee = Unknown
    /\ all_data = <<>>
    /\ origin = <<>>
    /\ result = <<>>
    /\ history = <<>>

\* if not raw_text: return pd.DataFrame()
ReturnEmpty ==
    /\ pc = "start"
    /\ raw_text = None \/ raw_text = <<>>
    /\ result' = <<>>
    /\ pc' = "done"
    /\ UNCHANGED <<raw_text, lines, i, current_employee, all_data, origin, history>>

\* The locals of a call as the loop finds them.
BeginKeepsContext ==
    /\ pc = "start"
    /\ raw_text # None /\ raw_text # <<>>
    /\ all_data' = <<>>
    /\ origin' = <<>>
    /\ lines' = SplitOn(raw_text, "\n")
    /\ i' = 1
    /\ pc' = "scan"
    /\ UNCHANGED <<raw_text, current_employee, result, history>>

Begin ==
    /\ pc = "start"
    /\ raw_text # None /\ raw_text # <<>>
    /\ all_data' = <<>>
    /\ origin' = <<>>
    /\ current_employee' = Unknown
    /\ lines' = SplitOn(raw_text, "\n")
    /\ i' = 1
    /\ pc' = "scan"
    /\ UNCHANGED <<raw_text, result, history>>

\* The loop body on a line that matches name_pattern.
ScanNameNoUpdate ==
    /\ pc = "scan"
    /\ i <= Len(lines)
    /\ NameMatch(Strip(lines[i]))
    /\ i' = i + 1
    /\ UNCHANGED <<raw_text, pc, lines, current_employee, all_data, origin, result, history>>

ScanName ==
    /\ pc = "scan"
    /\ i <= Len(lines)
    /\ NameMatch(Strip(lines[i]))
    /\ current_employee' = Strip(Strip(lines[i]))
    /\ i' = i + 1
    /\ UNCHANGED <<raw_text, pc, lines, all_data, origin, result, history>>

\* The loop body on a line that is appended to all_data.
ScanRecord ==
    /\ pc = "scan"
    /\ i <= Len(lines)
    /\ ~NameMatch(Strip(lines[i]))
    /\ Accepts(Strip(lines[i]))
    /\ all_data' = Append(all_data, RecordOf(current_employee, Strip(lines[i])))
    /\ origin' = Append(origin, i)
    /\ i' = i + 1
    /\ UNCHANGED <<raw_text, pc, lines, current_employee, result, history>>

\* The loop body on any other line.
ScanSkip ==
    /\ pc = "scan"
    /\ i <= Len(lines)
    /\ ~NameMatch(Strip(lines[i]))
    /\ ~Accepts(Strip(lines[i]))
    /\ i' = i + 1
    /\ UNCHANGED <<raw_text, pc, lines, current_employee, all_data, origin, result, history>>

\* The aggregation entered with an empty frame: the column lookup raises.
ReturnNoRecordsRaises ==
    /\ pc = "scan"
    /\ i > Len(lines)
    /\ all_data = <<>>
    /\ pc' = "raised"
    /\ UNCHANGED <<raw_text, lines, i, current_employee, all_data, origin, result, history>>

\* if df.empty: return df
ReturnNoRecords ==
    /\ pc = "scan"
    /\ i > Len(lines)
    /\ all_data = <<>>
    /\ result' = <<>>
    /\ pc' = "done"
    /\ UNCHANGED <<raw_text, lines, i, current_employee, all_data, origin, history>>

\* Totals, then the final rows.
Aggregate ==
    /\ pc = "scan"
    /\ i > Len(lines)
    /\ all_data # <<>>
    /\ result' = FinalRecords(all_data, GroupNames(all_data))
    /\ pc' = "done"
    /\ UNCHANGED <<raw_text, lines, i, current_employee, all_data, origin, history>>

\* The caller parses again: the same text or another one.
Call ==
    /\ pc = "done"
    /\ Len(history) + 1 < MaxCalls
    /\ history' = Append(history, [text |-> raw_text, result |-> result])
    /\ raw_text' \in {raw_text} \cup FollowUpTexts
    /\ pc' = "start"
    /\ UNCHANGED <<lines, i, current_employee, all_data, origin, result>>

Next ==
    \/ ReturnEmpty
    \/ Begin
    \/ ScanName
    \/ ScanRecord
    \/ ScanSkip
    \/ ReturnNoRecords
    \/ Aggregate
    \/ Call

Spec == Init /\ [][Next]_vars

----------------------------------------------------------------------------
(* Vocabulary of the properties. *)

IsData(r) == r.Date # <<>>

DataRows(rows) == SelectSeq(rows, IsData)

Has(s, c) == Find(s, c, 1) > 0

Named(rows, name) == SelectSeq(rows, LAMBDA r : IsData(r) /\ r.EmployeeName = name)

FirstIn(rows, name) ==
    CHOOSE k \in DOMAIN rows :
        /\ IsData(rows[k]) /\ rows[k].EmployeeName = name
        /\ \A m \in 1..(k - 1) : ~(IsData(rows[m]) /\ rows[m].EmployeeName = name)

NameSet(rows) == {rows[k].EmployeeName : k \in {m \in DOMAIN rows : IsData(rows[m])}}

\* The name carried by a total row.
GroupOf(r) == SubSeq(r.EmployeeName, Len(TotalPrefix) + 1, Len(r.EmployeeName))

\* The most recent name line among the first k lines, <<>> if there is none.
RECURSIVE LastNameLine(_, _)
LastNameLine(ls, k) ==
    IF k = 0 THEN <<>>
    ELSE IF NameMatch(Strip(ls[k])) THEN Strip(ls[k])
    ELSE LastNameLine(ls, k - 1)

\* The line with quotes and line feeds removed, as it is scanned for tokens.
Cleaned(line) == Strip(Remove(Remove(line, "\""), "\n"))

\* The currency-shaped tokens of s from position k on, left to right.
RECURSIVE CurrencyTokens(_, _)
CurrencyTokens(s, k) ==
    IF k > Len(s) THEN <<>>
    ELSE LET n == CurrencyLenAt(s, k)
         IN IF n > 0 THEN <<SubSeq(s, k, k + n - 1)>> \o CurrencyTokens(s, k + n)
            ELSE CurrencyTokens(s, k + 1)

TokensOfLine(j) == CurrencyTokens(Cleaned(Strip(lines[j])), 1)

Parses(value) == FloatOk(Strip(Remove(Remove(value, "R"), ",")))

\* The sum in cents of the values that parse, the others left out.
RECURSIVE SumParsed(_)
SumParsed(rows) ==
    IF rows = <<>> THEN 0
    ELSE (IF Parses(Head(rows).GrossRemuneration)
          THEN FloatCents(Strip(Remove(Remove(Head(rows).GrossRemuneration, "R"), ",")))
          ELSE 0) + SumParsed(Tail(rows))

IsoExact(s) == IsoAt(s, 1) /\ Len(s) = 10

CurrencyExact(s) == s # <<>> /\ CurrencyLenAt(s, 1) = Len(s)

OwnText == raw_text # None /\ raw_text # <<>>

----------------------------------------------------------------------------
(* Properties. *)

\* C1: the returned rows are grouped by employee: the data rows of one name
\* are contiguous and in scan order, each group is followed at once by its
\* one row 'TOTAL for <name>' with an empty date, and the groups come in the
\* order in which the names first produced a record.
GroupedByEmployee ==
    (pc = "done" /\ result # <<>>) =>
        LET n == Len(result)
        IN /\ IsData(result[1])
           /\ ~IsData(result[n])
           /\ \A k \in 1..n : ~IsData(result[k]) =>
                  /\ k > 1
                  /\ IsData(result[k - 1])
                  /\ result[k].EmployeeName = TotalPrefix \o result[k - 1].EmployeeName
           /\ \A k \in 1..(n - 1) : (IsData(result[k]) /\ IsData(result[k + 1])) =>
                  result[k].EmployeeName = result[k + 1].EmployeeName
           /\ \A k, l \in 1..n :
                  (k < l /\ IsData(result[k]) /\ IsData(result[l])
                     /\ result[k].EmployeeName = result[l].EmployeeName) =>
                      \A m \in k..l : IsData(result[m])
           /\ NameSet(result) = NameSet(all_data)
           /\ \A name \in NameSet(all_data) : Named(result, name) = Named(all_data, name)
           /\ \A a, b \in NameSet(all_data) :
                  FirstIn(all_data, a) < FirstIn(all_data, b) =>
                      FirstIn(result, a) < FirstIn(result, b)

\* An employee's records are not contiguous in the scan: A, then B, then A.
InterleavedGroupsParsed ==
    /\ pc = "done"
    /\ \E k, l, m \in DOMAIN all_data :
           /\ k < l /\ l < m
           /\ all_data[k].EmployeeName = all_data[m].EmployeeName
           /\ all_data[k].EmployeeName # all_data[l].EmployeeName

\* C2: every record carries the text of the most recent name line before its
\* own line, the sentinel exactly when there is none, and keeps it whatever
\* lines follow.
RecordsCarryContext ==
    (pc \in {"scan", "done"}) =>
        /\ Len(origin) = Len(all_data)
        /\ \A k \in DOMAIN all_data :
               LET n == LastNameLine(lines, origin[k] - 1)
               IN /\ all_data[k].EmployeeName = (IF n = <<>> THEN Unknown ELSE n)
                  /\ (all_data[k].EmployeeName = Unknown) <=> (n = <<>>)
        /\ (pc = "done" /\ result # <<>>) =>
               \A m \in DOMAIN result : IsData(result[m]) =>
                   \E k \in DOMAIN all_data : all_data[k] = result[m]

\* A record was emitted under one name and a different name line came later.
NameLineAfterRecord ==
    /\ pc = "done"
    /\ \E k \in DOMAIN all_data :
           /\ all_data[k].EmployeeName # Unknown
           /\ \E j \in (origin[k] + 1)..Len(lines) :
                  /\ NameMatch(Strip(lines[j]))
                  /\ Strip(lines[j]) # all_data[k].EmployeeName
           /\ \E m \in DOMAIN result : result[m] = all_data[k]

\* C3: no record originates from a line with fewer than two currency-shaped
\* tokens.
NoRecordFromFewTokens ==
    (pc \in {"scan", "done"}) =>
        \A k \in DOMAIN origin : Len(TokensOfLine(origin[k])) >= 2

\* C4: every line that starts with an ISO date and has at least two
\* currency-shaped tokens yields exactly one record, with the leading date and
\* the second-to-last token as gross remuneration; quotes and a field count
\* are not required.
EveryDatedLineYieldsRecord ==
    (pc = "done" /\ OwnText) =>
        \A j \in DOMAIN lines :
            LET c == Cleaned(Strip(lines[j]))
                toks == CurrencyTokens(c, 1)
            IN (IsoAt(c, 1) /\ Len(toks) >= 2) =>
                   /\ Cardinality({k \in DOMAIN origin : origin[k] = j}) = 1
                   /\ \E k \in DOMAIN origin :
                          /\ origin[k] = j
                          /\ all_data[k].Date = SubSeq(c, 1, 10)
                          /\ all_data[k].GrossRemuneration = toks[Len(toks) - 1]

\* C5: the amount of each total row is the sum of the normalized values of the
\* data rows of its own group, and it is written in the currency format.
TotalsAreGroupSums ==
    (pc = "done" /\ result # <<>>) =>
        \A t \in DOMAIN result : ~IsData(result[t]) =>
            /\ CurrencyExact(result[t].GrossRemuneration)
            /\ clean_currency(result[t].GrossRemuneration)
                   = SumValues(Named(result, GroupOf(result[t])))

\* Two groups, one of them with a total of a thousand or more.
TwoGroupsTotalled ==
    /\ pc = "done"
    /\ Cardinality(NameSet(result)) >= 2
    /\ \E t \in DOMAIN result :
           ~IsData(result[t]) /\ Has(result[t].GrossRemuneration, ",")

\* C6: a null or empty input, and an input none of whose lines is accepted as
\* a data line, give an empty result, and nothing is raised.
EmptyInputsGiveEmptyResult ==
    /\ pc # "raised"
    /\ (pc = "done" /\ (~OwnText \/ LET own == SplitOn(raw_text, "\n")
                                      IN \A j \in DOMAIN own : ~Accepts(Strip(own[j])))) =>
           result = <<>>

\* A text with a name line and no record was parsed to the end.
NameLinesOnlyParsed ==
    /\ pc = "done"
    /\ OwnText
    /\ history = <<>>
    /\ result = <<>>
    /\ \E j \in DOMAIN lines : NameMatch(Strip(lines[j]))

\* C7: a record whose gross remuneration does not parse stays in the result
\* with its string, adds nothing to the total of its group, and every accepted
\* line still has its record.
MalformedCountsZero ==
    (pc = "done" /\ OwnText) =>
        /\ Len(all_data) = Cardinality({j \in DOMAIN lines :
               ~NameMatch(Strip(lines[j])) /\ Accepts(Strip(lines[j]))})
        /\ Len(DataRows(result)) = Len(all_data)
        /\ \A k \in DOMAIN all_data :
               /\ \E m \in DOMAIN result : result[m] = all_data[k]
               /\ all_data[k].GrossRemuneration
                      = StripNonEmpty(SplitOn(Cleaned(Strip(lines[origin[k]])), ","))[GrossIndex]
        /\ \A t \in DOMAIN result : ~IsData(result[t]) =>
               result[t].GrossRemuneration
                   = FormatCurrency(SumParsed(Named(result, GroupOf(result[t]))))

\* A group holds a record that does not parse and one that does.
MalformedRecordTotalled ==
    /\ pc = "done"
    /\ \E k, l \in DOMAIN all_data :
           /\ ~Parses(all_data[k].GrossRemuneration)
           /\ Parses(all_data[l].GrossRemuneration)
           /\ all_data[k].EmployeeName = all_data[l].EmployeeName
           /\ \E m \in DOMAIN result : result[m] = all_data[k]

\* C8: every data row has a date that is exactly YYYY-MM-DD and a gross
\* remuneration that is exactly R, digits and commas, and two decimals.
RowsWellFormed ==
    (pc = "done") =>
        \A m \in DOMAIN result : IsData(result[m]) =>
            /\ IsoExact(result[m].Date)
            /\ CurrencyExact(result[m].GrossRemuneration)

\* C9: a text parsed again gives the same rows, every call starts from the
\* sentinel with no records, and the names in a call's records come from its
\* own text.
CallsIndependent ==
    /\ (pc = "done") =>
           \A h \in DOMAIN history :
               history[h].text = raw_text => history[h].result = result
    /\ (pc = "scan" /\ i = 1) => (current_employee = Unknown /\ all_data = <<>>)
    /\ (pc \in {"scan", "done"} /\ OwnText) =>
           LET own == SplitOn(raw_text, "\n")
           IN \A k \in DOMAIN all_data :
                  \/ all_data[k].EmployeeName = Unknown
                  \/ \E j \in DOMAIN own : Strip(own[j]) = all_data[k].EmployeeName

\* The text was parsed a second time after a call that ended under a name,
\* and its first record stands under the sentinel.
ReparsedAfterNamedContext ==
    /\ pc = "done"
    /\ Len(history) >= 1
    /\ history[1].text = raw_text
    /\ result # <<>>
    /\ result[1].EmployeeName = Unknown
    /\ current_employee # Unknown

====
